---- MODULE Spec2Model ----
(***************************************************************************)
(* RetFiner/utils/dataset_folder.py: the directory indexers                *)
(* (make_nonclass_dataset, make_dataset, _find_classes), DatasetFolder     *)
(* with its retry loop, and MultiTaskDatasetFolder.                        *)
(*                                                                         *)
(* Strings are sequences of one-character strings, compared as Python      *)
(* compares str (by code point, a proper prefix first).  A file system is  *)
(* a set of directories and a map from (directory, file name) to the       *)
(* content of the file: "bad" (the loader raises), "d2" or "d3" (an array  *)
(* of two or three dimensions).                                            *)
(***************************************************************************)
EXTENDS Integers, Sequences, FiniteSets, TLC

VARIABLES
  fs,          \* the directory tree
  call,        \* the indexer call in progress and its result
  df,          \* the DatasetFolder object
  dfpc,        \* DatasetFolder.__getitem__: "idle", "loop", "done", "raised"
  dfIndex,     \* its local index
  dfTarget,    \* its local target
  dfFailed,    \* the index whose attempt raised last, in this call
  dfRet,       \* what it returned
  mt,          \* the MultiTaskDatasetFolder object
  mtRet,       \* the outcome of the last MultiTaskDatasetFolder.__getitem__
  mtReturned   \* the indices __getitem__ has returned for

vars ==
  <<fs, call, df, dfpc, dfIndex, dfTarget, dfFailed, dfRet, mt, mtRet, mtReturned>>

\* Python's None where the other values are strings
None == "None"

\* An optional collection: Nothing is Python's None, Some(x) the value x
Nothing == << >>

Some(x) == <<x>>

\* ------------------------------------------------------------ bounds
MaxFiles == 4
MaxIndex == 3

\* ------------------------------------------------------------ strings
\* The characters the model uses, in code-point order.
Alphabet ==
  << "-", ".", "/", "G", "N", "P", "Z",
     "a", "b", "c", "d", "e", "f", "g", "h", "i", "j", "k", "l", "m",
     "n", "o", "p", "q", "r", "s", "t", "u", "v", "w", "x", "y", "z", "~" >>

Ord(c) == CHOOSE i \in 1..Len(Alphabet) : Alphabet[i] = c

\* str.lower() on one character
LowerChar(c) ==
  CASE c = "G" -> "g"
    [] c = "N" -> "n"
    [] c = "P" -> "p"
    [] c = "Z" -> "z"
    [] OTHER -> c

Lower(s) == [i \in 1..Len(s) |-> LowerChar(s[i])]

\* Python's s < t on str
StrLess(s, t) ==
  \E k \in 1..(Len(t)) :
    /\ k <= Len(s) + 1
    /\ \A i \in 1..(k - 1) : s[i] = t[i]
    /\ \/ k = Len(s) + 1
       \/ Ord(s[k]) < Ord(t[k])

RECURSIVE Sorted_descending(_)
Sorted_descending(S) ==
  IF S = {} THEN << >>
  ELSE LET m == CHOOSE x \in S : \A y \in S : x = y \/ StrLess(y, x)
       IN  <<m>> \o Sorted_descending(S \ {m})

\* sorted(S) for a collection of distinct strings
RECURSIVE Sorted(_)
Sorted(S) ==
  IF S = {} THEN << >>
  ELSE LET m == CHOOSE x \in S : \A y \in S : x = y \/ StrLess(x, y)
       IN  <<m>> \o Sorted(S \ {m})

\* str.endswith(e)
EndsWith(s, e) ==
  /\ Len(e) <= Len(s)
  /\ \A i \in 1..Len(e) : s[Len(s) - Len(e) + i] = e[i]

StartsWith(s, p) ==
  /\ Len(p) <= Len(s)
  /\ \A i \in 1..Len(p) : s[i] = p[i]

\* str.endswith(tuple): any of the suffixes
EndsWithAny(s, exts) == \E e \in exts : EndsWith(s, e)

\* sub in s, for str
Contains(s, sub) ==
  \E k \in 0..(Len(s) - Len(sub)) : \A i \in 1..Len(sub) : s[k + i] = sub[i]

\* s.rfind(c) + 1: the last position of c in s, 0 when absent
RFind(s, c) ==
  IF \E i \in 1..Len(s) : s[i] = c
  THEN CHOOSE i \in 1..Len(s) : s[i] = c /\ \A j \in (i + 1)..Len(s) : s[j] # c
  ELSE 0

\* os.path.join(a, b) for a relative b
Join(a, b) == a \o <<"/">> \o b

\* os.path.expanduser: only a leading "~" is replaced
HomeDir == <<"/", "h">>

ExpandUser(p) ==
  IF Len(p) >= 1 /\ p[1] = "~" /\ (Len(p) = 1 \/ p[2] = "/")
  THEN HomeDir \o SubSeq(p, 2, Len(p))
  ELSE p

\* Path(p).name: the final component
BaseName(p) == SubSeq(p, RFind(p, "/") + 1, Len(p))

\* Path(p).stem: the final component without its last suffix; a leading or a
\* trailing dot starts no suffix
Stem(p) ==
  LET name == BaseName(p)
      i    == RFind(name, ".")
  IN  IF 1 < i /\ i < Len(name) THEN SubSeq(name, 1, i - 1) ELSE name

\* ------------------------------------------------------------ file system
IsDir(f, d) == d \in f.dirs

\* the file names directly in directory d
FileNames(f, d) == {k[2] : k \in {k \in DOMAIN f.files : k[1] = d}}

\* the roots os.walk(top) visits: top and every directory below it
WalkRoots(f, top) ==
  {d \in f.dirs : d = top \/ StartsWith(d, top \o <<"/">>)}

\* os.scandir(d) entries that are directories: the names directly under d
SubDirNames(f, d) ==
  {SubSeq(s, Len(d) + 2, Len(s)) :
     s \in {s \in f.dirs : /\ StartsWith(s, d \o <<"/">>)
                           /\ RFind(s, "/") = Len(d) + 1}}

\* ------------------------------------------------------------ indexers
has_file_allowed_extension_nolower(filename, extensions) ==
  EndsWithAny(filename, extensions)

has_file_allowed_extension(filename, extensions) ==
  EndsWithAny(Lower(filename), extensions)

IMG_EXTENSIONS ==
  { <<".", "j", "p", "g">>, <<".", "j", "p", "e", "g">>, <<".", "p", "n", "g">>,
    <<".", "p", "p", "m">>, <<".", "b", "m", "p">>, <<".", "p", "g", "m">>,
    <<".", "t", "i", "f">>, <<".", "t", "i", "f", "f">>,
    <<".", "w", "e", "b", "p">>, <<".", "j", "p", "x">>,
    <<".", "n", "p", "y">>, <<".", "n", "p", "z">> }

is_image_file(filename) == has_file_allowed_extension(filename, IMG_EXTENSIONS)

\* A caller's is_valid_file predicate, by name.
ValidFns == {"accept_all", "reject_all"}

ApplyValid(fn, path) == fn = "accept_all"

\* is_valid_file as the indexers use it once the argument check has passed
IsValidFile(extensions, is_valid_file, path) ==
  IF extensions # Nothing
  THEN has_file_allowed_extension(path, extensions[1])
  ELSE ApplyValid(is_valid_file, path)

\* The two nested loops over sorted(os.walk(target_dir)) and sorted(fnames):
\* the paths in the order the loops visit them.
RECURSIVE WalkPaths(_, _)
WalkPaths(f, roots) ==
  IF roots = << >> THEN << >>
  ELSE LET root   == Head(roots)
           fnames == Sorted(FileNames(f, root))
       IN  [i \in 1..Len(fnames) |-> Join(root, fnames[i])]
             \o WalkPaths(f, Tail(roots))

WalkedPaths(f, target_dir) == WalkPaths(f, Sorted(WalkRoots(f, target_dir)))

\* [x for x in s if P(x)]
RECURSIVE FilterSeq(_, _)
FilterSeq(s, keep) ==
  IF s = << >> THEN << >>
  ELSE (IF Head(s) \in keep THEN <<Head(s)>> ELSE << >>) \o FilterSeq(Tail(s), keep)

Range(s) == {s[i] : i \in 1..Len(s)}

BadArgs_onlynone(extensions, is_valid_file) ==
  extensions = Nothing /\ is_valid_file = None

\* both_none or both_something
BadArgs(extensions, is_valid_file) ==
  LET both_none      == extensions = Nothing /\ is_valid_file = None
      both_something == extensions # Nothing /\ is_valid_file # None
  IN  both_none \/ both_something

Raised(e) == [exc |-> e, instances |-> << >>, touched |-> FALSE]

make_nonclass_dataset_noassert(f, directory, fsids, extensions, is_valid_file) ==
  LET target_dir == ExpandUser(directory) IN
  IF BadArgs(extensions, is_valid_file) THEN Raised("ValueError")
  ELSE LET paths == WalkedPaths(f, target_dir)
           keep  == {p \in Range(paths) :
                       /\ IsValidFile(extensions, is_valid_file, p)
                       /\ (fsids # Nothing => Stem(p) \in fsids[1])}
           kept  == FilterSeq(paths, keep)
       IN  [exc |-> None,
            instances |-> [i \in 1..Len(kept) |-> <<kept[i], 0>>],
            touched |-> TRUE]

make_nonclass_dataset(f, directory, fsids, extensions, is_valid_file) ==
  LET target_dir == ExpandUser(directory) IN
  IF BadArgs(extensions, is_valid_file) THEN Raised("ValueError")
  ELSE IF ~IsDir(f, target_dir)
  THEN [exc |-> "AssertionError", instances |-> << >>, touched |-> TRUE]
  ELSE LET paths == WalkedPaths(f, target_dir)
           keep  == {p \in Range(paths) :
                       /\ IsValidFile(extensions, is_valid_file, p)
                       /\ (fsids # Nothing => Stem(p) \in fsids[1])}
           kept  == FilterSeq(paths, keep)
       IN  [exc |-> None,
            instances |-> [i \in 1..Len(kept) |-> <<kept[i], 0>>],
            touched |-> TRUE]

\* The body of make_dataset's loop over sorted(class_to_idx.keys()).
RECURSIVE ClassInstances(_, _, _, _, _, _)
ClassInstances(f, directory, classes, class_to_idx, extensions, is_valid_file) ==
  IF classes = << >> THEN << >>
  ELSE LET target_class == Head(classes)
           class_index  == class_to_idx[target_class]
           target_dir   == Join(directory, target_class)
           rest == ClassInstances(f, directory, Tail(classes), class_to_idx,
                                  extensions, is_valid_file)
       IN  IF ~IsDir(f, target_dir) THEN rest
           ELSE LET paths == WalkedPaths(f, target_dir)
                    keep  == {p \in Range(paths) :
                                IsValidFile(extensions, is_valid_file, p)}
                    kept  == FilterSeq(paths, keep)
                IN  [i \in 1..Len(kept) |-> <<kept[i], class_index>>] \o rest

make_dataset(f, directory, class_to_idx, extensions, is_valid_file) ==
  IF BadArgs(extensions, is_valid_file) THEN Raised("ValueError")
  ELSE [exc |-> None,
        instances |-> ClassInstances(f, ExpandUser(directory),
                                     Sorted(DOMAIN class_to_idx), class_to_idx,
                                     extensions, is_valid_file),
        touched |-> TRUE]

\* _find_classes: the sorted sub-directory names and their positions (from 0)
_find_classes(f, dir) ==
  LET classes == Sorted(SubDirNames(f, dir))
  IN  [classes |-> classes,
       class_to_idx |-> [c \in Range(classes) |->
                           (CHOOSE i \in 1..Len(classes) : classes[i] = c) - 1]]

\* ------------------------------------------------------------ directory trees
Root == <<"r">>

DirA     == <<"r", "/", "a">>
DirADash == <<"r", "/", "a", "-">>
DirAS    == <<"r", "/", "a", "/", "s">>

NamePng   == <<"b", ".", "p", "n", "g">>
NameUpper == <<"Z", ".", "P", "N", "G">>
NameTxt   == <<"c", ".", "t", "x", "t">>

IndexDirs  == {DirA, DirADash, DirAS}
IndexNames == {NamePng, NameUpper, NameTxt}

\* every directory but the root lies in a directory of the tree
ClosedDirs(D) == \A d \in D : d = Root \/ SubSeq(d, 1, RFind(d, "/") - 1) \in D

MkFs(D, F, content) == [dirs |-> D, files |-> [k \in F |-> content]]

IndexTrees ==
  UNION { { MkFs(D \cup {Root}, F, "d2") :
              F \in {F \in SUBSET (D \X IndexNames) : Cardinality(F) <= MaxFiles} } :
          D \in {D \in SUBSET IndexDirs : ClosedDirs(D \cup {Root})} }

PngOnly == {<<".", "p", "n", "g">>}

ExtensionArgs == {Nothing, Some(PngOnly), Some(IMG_EXTENSIONS)}
ValidFileArgs == {None} \cup ValidFns
FsidsArgs     == {Nothing, Some({<<"b">>}), Some({<<"Z">>, <<"c">>})}

\* class_to_idx arguments: what _find_classes computes, and a map a caller wrote
ClassMapArgs(f) ==
  { _find_classes(f, Root).class_to_idx,
    [c \in {<<"a">>, <<"a", "-">>} |-> IF c = <<"a">> THEN 0 ELSE 1] }

NoCall ==
  [fn |-> "none", directory |-> << >>, fsids |-> Nothing, extensions |-> Nothing,
   is_valid_file |-> None, class_to_idx |-> Nothing, exc |-> None,
   instances |-> << >>, touched |-> FALSE, classes |-> << >>]

NoObject == [status |-> "none"]

\* ------------------------------------------------------------ indexer calls
Idle ==
  /\ df = NoObject /\ dfpc = "idle" /\ dfIndex = 0 /\ dfTarget = Nothing
  /\ dfFailed = Nothing /\ dfRet = Nothing
  /\ mt = NoObject /\ mtRet = NoObject /\ mtReturned = {}

InitIndex ==
  /\ fs \in IndexTrees
  /\ call = NoCall
  /\ Idle

CallMakeNonclassDataset ==
  /\ call = NoCall
  /\ \E directory \in IndexDirs \cup {Root}, fsids \in FsidsArgs,
     extensions \in ExtensionArgs, is_valid_file \in ValidFileArgs :
    LET r == make_nonclass_dataset(fs, directory, fsids, extensions, is_valid_file)
    IN  /\ call' = [NoCall EXCEPT !.fn = "make_nonclass_dataset",
                      !.directory = directory, !.fsids = fsids,
                      !.extensions = extensions, !.is_valid_file = is_valid_file,
                      !.exc = r.exc, !.instances = r.instances,
                      !.touched = r.touched]
        /\ UNCHANGED <<fs, df, dfpc, dfIndex, dfTarget, dfFailed, dfRet, mt, mtRet,
                       mtReturned>>

CallMakeDataset ==
  /\ call = NoCall
  /\ \E class_to_idx \in ClassMapArgs(fs),
     extensions \in ExtensionArgs, is_valid_file \in ValidFileArgs :
    LET r == make_dataset(fs, Root, class_to_idx, extensions, is_valid_file)
    IN  /\ call' = [NoCall EXCEPT !.fn = "make_dataset",
                      !.directory = Root, !.class_to_idx = Some(class_to_idx),
                      !.extensions = extensions, !.is_valid_file = is_valid_file,
                      !.exc = r.exc, !.instances = r.instances,
                      !.touched = r.touched]
        /\ UNCHANGED <<fs, df, dfpc, dfIndex, dfTarget, dfFailed, dfRet, mt, mtRet,
                       mtReturned>>

CallFindClasses ==
  LET r == _find_classes(fs, Root)
  IN  /\ call = NoCall
      /\ call' = [NoCall EXCEPT !.fn = "_find_classes", !.directory = Root,
                    !.classes = r.classes, !.class_to_idx = Some(r.class_to_idx),
                    !.touched = TRUE]
      /\ UNCHANGED <<fs, df, dfpc, dfIndex, dfTarget, dfFailed, dfRet, mt, mtRet,
                       mtReturned>>

\* the caller takes the result and is ready for its next call
CallReturn ==
  /\ call # NoCall
  /\ call' = NoCall
  /\ UNCHANGED <<fs, df, dfpc, dfIndex, dfTarget, dfFailed, dfRet, mt, mtRet,
                       mtReturned>>

NextIndex ==
  CallMakeNonclassDataset \/ CallMakeDataset \/ CallFindClasses \/ CallReturn

SpecIndex == InitIndex /\ [][NextIndex]_vars

\* ------------------------------------------------------------ claims on the indexers
\* os.path.dirname
DirName(p) == SubSeq(p, 1, RFind(p, "/") - 1)

Paths(instances) == [i \in 1..Len(instances) |-> instances[i][1]]

\* every file below directory d, at any depth
FilesBelow(f, d) ==
  {Join(k[1], k[2]) : k \in {k \in DOMAIN f.files : StartsWith(k[1] \o <<"/">>, d \o <<"/">>)}}

IndexerCall == call.fn \in {"make_dataset", "make_nonclass_dataset"}

ExtGiven == call.extensions # Nothing

ValidGiven == call.is_valid_file # None

\* the class directory a path of make_dataset's result lies in
ClassOf(p, directory) ==
  LET rest == SubSeq(p, Len(directory) + 2, Len(p))
  IN  SubSeq(rest, 1, (CHOOSE i \in 1..Len(rest) :
                         rest[i] = "/" /\ \A j \in 1..(i - 1) : rest[j] # "/") - 1)

\* the classes of a class_to_idx map whose directory is missing
MissingClasses(f, directory, class_to_idx) ==
  {c \in DOMAIN class_to_idx : ~IsDir(f, Join(directory, c))}

Restrict(fn, S) == [x \in S |-> fn[x]]

\* C6 as claimed: a missing directory makes either indexer fail.
C6_AsClaimed ==
  /\ (/\ call.fn = "make_nonclass_dataset"
      /\ ~IsDir(fs, call.directory))
       => call.exc # None
  /\ (/\ call.fn = "make_dataset"
      /\ MissingClasses(fs, call.directory, call.class_to_idx[1]) # {})
       => call.exc # None

\* C6 (amended): make_nonclass_dataset fails (AssertionError, nothing
\* returned) when its target is not a directory and the arguments are
\* well-formed; make_dataset does not fail on a class whose directory is
\* missing: it skips the class and returns the samples of the classes whose
\* directories exist.
C6_MissingDirectory ==
  /\ (/\ call.fn = "make_nonclass_dataset"
      /\ ExtGiven # ValidGiven
      /\ ~IsDir(fs, call.directory))
       => call.exc = "AssertionError" /\ call.instances = << >>
  /\ (/\ call.fn = "make_dataset"
      /\ ExtGiven # ValidGiven)
       => LET m       == call.class_to_idx[1]
              present == DOMAIN m \ MissingClasses(fs, call.directory, m)
          IN  /\ call.exc = None
              /\ call.instances =
                   make_dataset(fs, call.directory, Restrict(m, present),
                                call.extensions, call.is_valid_file).instances
              /\ \A i \in 1..Len(call.instances) :
                   ClassOf(call.instances[i][1], call.directory) \in present

C6_Witness ==
  /\ call.fn = "make_dataset"
  /\ call.exc = None
  /\ MissingClasses(fs, call.directory, call.class_to_idx[1]) # {}
  /\ call.instances # << >>

AscendingPaths(ps) == \A i, j \in 1..Len(ps) : i < j => StrLess(ps[i], ps[j])

AscendingClasses ==
  call.fn = "_find_classes" =>
    /\ \A i, j \in 1..Len(call.classes) :
         i < j => StrLess(call.classes[i], call.classes[j])
    /\ Range(call.classes) = SubDirNames(fs, call.directory)
    /\ \A i \in 1..Len(call.classes) : call.class_to_idx[1][call.classes[i]] = i - 1

\* C7 as claimed: the class list is ascending and the sample lists are
\* ascending in the full path.
C7_AsClaimed ==
  /\ AscendingClasses
  /\ (IndexerCall /\ call.exc = None) => AscendingPaths(Paths(call.instances))

\* walk order: by directory, then by file name
WalkOrdered(p, q) ==
  \/ StrLess(DirName(p), DirName(q))
  \/ DirName(p) = DirName(q) /\ StrLess(BaseName(p), BaseName(q))

\* C7 (amended): _find_classes returns the sub-directory names ascending with
\* class_to_idx mapping the i-th name to i; make_nonclass_dataset lists its
\* paths by directory path and then by file name, make_dataset by class name,
\* then directory path, then file name.  Within one directory that is the
\* ascending order of the full path; across directories it need not be.
C7_Ordering ==
  /\ AscendingClasses
  /\ (call.fn = "make_nonclass_dataset" /\ call.exc = None) =>
       LET ps == Paths(call.instances)
       IN  \A i, j \in 1..Len(ps) : i < j => WalkOrdered(ps[i], ps[j])
  /\ (call.fn = "make_dataset" /\ call.exc = None) =>
       LET ps == Paths(call.instances)
           d  == call.directory
       IN  \A i, j \in 1..Len(ps) : i < j =>
             \/ StrLess(ClassOf(ps[i], d), ClassOf(ps[j], d))
             \/ /\ ClassOf(ps[i], d) = ClassOf(ps[j], d)
                /\ WalkOrdered(ps[i], ps[j])
  /\ (IndexerCall /\ call.exc = None) =>
       LET ps == Paths(call.instances)
       IN  \A i, j \in 1..Len(ps) :
             (i < j /\ DirName(ps[i]) = DirName(ps[j])) => StrLess(ps[i], ps[j])

C7_Witness ==
  /\ call.fn = "make_dataset"
  /\ call.exc = None
  /\ \E i, j \in 1..Len(call.instances) :
       /\ i < j
       /\ StrLess(call.instances[j][1], call.instances[i][1])

\* C8: make_dataset and make_nonclass_dataset raise ValueError when extensions
\* and is_valid_file are both given or both omitted, before the file system is
\* touched and with no instance added, and raise no ValueError when exactly
\* one of the two is given.
C8_ExactlyOneOf ==
  IndexerCall =>
    /\ (ExtGiven = ValidGiven) =>
         /\ call.exc = "ValueError"
         /\ call.instances = << >>
         /\ ~call.touched
    /\ (ExtGiven # ValidGiven) => call.exc # "ValueError" /\ call.touched

C8_Witness ==
  /\ call.fn = "make_nonclass_dataset"
  /\ ExtGiven /\ ValidGiven
  /\ IsDir(fs, call.directory)
  /\ FilesBelow(fs, call.directory) # {}
  /\ call.exc = "ValueError"

\* C9: with extensions given, the index make_nonclass_dataset builds holds
\* exactly the files below the directory whose lower-cased path ends with one
\* of the extensions and, when fsids is not None, whose stem is in fsids; each
\* once, each with label 0.
C9_ExactIndex ==
  (call.fn = "make_nonclass_dataset" /\ call.exc = None /\ ExtGiven) =>
    LET expected ==
          {p \in FilesBelow(fs, call.directory) :
             /\ \E e \in call.extensions[1] : EndsWith(Lower(p), e)
             /\ (call.fsids = Nothing \/ Stem(p) \in call.fsids[1])}
    IN  /\ Range(Paths(call.instances)) = expected
        /\ Len(call.instances) = Cardinality(expected)
        /\ \A i \in 1..Len(call.instances) : call.instances[i][2] = 0

C9_Witness ==
  /\ call.fn = "make_nonclass_dataset"
  /\ call.exc = None
  /\ ExtGiven
  /\ call.fsids # Nothing
  /\ Len(call.instances) >= 1
  /\ \E i \in 1..Len(call.instances) : Lower(call.instances[i][1]) # call.instances[i][1]
  /\ Cardinality(FilesBelow(fs, call.directory)) > Len(call.instances)

\* ------------------------------------------------------------ dataset trees
\* root/<class or task>/<file>: two directories, an array file and an image
\* file in each, every file unreadable ("bad") or an array of 2 or 3 dimensions
TaskBscan == <<"b", "s", "c", "a", "n">>
TaskSlo   == <<"s", "l", "o">>

NameNpy == <<"x", ".", "n", "p", "y">>
NameImg == <<"y", ".", "p", "n", "g">>

DataDirs == {Join(Root, TaskBscan), Join(Root, TaskSlo)}

DataTrees(contents) ==
  { [dirs |-> DataDirs \cup {Root}, files |-> c] :
      c \in UNION { [F -> contents] :
                    F \in {F \in SUBSET (DataDirs \X {NameNpy, NameImg}) :
                             Cardinality(F) <= MaxFiles} } }

Content(f, path) == f.files[<<DirName(path), BaseName(path)>>]

\* list[index] as Python resolves it: the position (from 1), 0 for IndexError
PyIndex(n, index) ==
  IF 0 <= index /\ index < n THEN index + 1
  ELSE IF -n <= index /\ index < 0 THEN n + index + 1
  ELSE 0

PySliceTo_offbyone(s, m) ==
  LET n == Len(s)
      k == IF m + 1 < n THEN m + 1 ELSE n
  IN  SubSeq(s, 1, IF k > 0 THEN k ELSE 0)

\* list[:m]
PySliceTo(s, m) ==
  LET n == Len(s)
      k == IF m >= 0 THEN (IF m < n THEN m ELSE n)
           ELSE (IF n + m > 0 THEN n + m ELSE 0)
  IN  SubSeq(s, 1, k)

IndexArgs == (-(MaxIndex + 1))..MaxIndex

\* a caller's transform, by name: it wraps what it is given
ApplyTransform(t, x) == IF t = None THEN x ELSE <<t, x>>

\* ------------------------------------------------------------ DatasetFolder
ZeroSamples_never(samples) == FALSE

\* len(samples) == 0
ZeroSamples(samples) == Len(samples) = 0

DFFailed(e) ==
  [status |-> e, classes |-> << >>, class_to_idx |-> << >>, samples |-> << >>,
   targets |-> << >>, extensions |-> Nothing, transform |-> None,
   target_transform |-> None]

DatasetFolderInit(f, root, extensions, transform, target_transform, is_valid_file) ==
  LET found   == _find_classes(f, root)
      made    == make_dataset(f, root, found.class_to_idx, extensions, is_valid_file)
      samples == made.instances
  IN  IF made.exc # None THEN DFFailed(made.exc)
      ELSE IF ZeroSamples(samples) THEN DFFailed("RuntimeError")
      ELSE [status |-> "ok", classes |-> found.classes,
            class_to_idx |-> found.class_to_idx, samples |-> samples,
            targets |-> [i \in 1..Len(samples) |-> samples[i][2]],
            extensions |-> extensions, transform |-> transform,
            target_transform |-> target_transform]

\* the loader argument: it raises on an unreadable file
LoaderRaises(f, path) == Content(f, path) = "bad"

Loader(f, path) == [src |-> path, data |-> Content(f, path)]

RandInt_offbyone(a, b) == a..(b + 1)

\* random.randint(a, b): any integer of a..b; ValueError when the range is empty
RandInt(a, b) == a..b

CtorExtensionArgs == {Nothing, Some(IMG_EXTENSIONS)}
CtorValidFileArgs == {None, "accept_all"}

\* DatasetFolder(root, loader, extensions, transform, target_transform,
\* is_valid_file); a run holds one dataset object at a time
DFConstruct ==
  /\ df = NoObject /\ mt = NoObject
  /\ \E extensions \in CtorExtensionArgs, is_valid_file \in CtorValidFileArgs,
        t \in {<<None, None>>, <<"transform", "target_transform">>} :
       df' = DatasetFolderInit(fs, Root, extensions, t[1], t[2], is_valid_file)
  /\ UNCHANGED <<fs, call, dfpc, dfIndex, dfTarget, dfFailed, dfRet, mt, mtRet,
                 mtReturned>>

\* __getitem__(index) is entered
DFGetItem ==
  /\ df # NoObject /\ df.status = "ok"
  /\ dfpc = "idle"
  /\ \E index \in IndexArgs : dfIndex' = index
  /\ dfpc' = "loop"
  /\ dfTarget' = Nothing
  /\ dfFailed' = Nothing
  /\ dfRet' = Nothing
  /\ UNCHANGED <<fs, call, df, mt, mtRet, mtReturned>>

\* the try block of one iteration raises: samples[index] (IndexError) or the
\* loader
DFAttemptRaises ==
  LET pos == PyIndex(Len(df.samples), dfIndex)
  IN  IF pos = 0 THEN TRUE ELSE LoaderRaises(fs, df.samples[pos][1])

\* One iteration whose try block succeeds: break, the transforms, return.
DFLoadOk ==
  /\ dfpc = "loop"
  /\ ~DFAttemptRaises
  /\ LET entry  == df.samples[PyIndex(Len(df.samples), dfIndex)]
         path   == entry[1]
         target == entry[2]
         sample == Loader(fs, path)
     IN  /\ dfTarget' = Some(target)
         /\ dfRet' = Some(<<ApplyTransform(df.transform, sample),
                            ApplyTransform(df.target_transform, target)>>)
  /\ dfpc' = "done"
  /\ UNCHANGED <<fs, call, df, dfIndex, dfFailed, mt, mtRet, mtReturned>>

Caught_onlyloader(exc) == exc = "LoaderError"

\* except Exception: what the try block raises is caught
Caught(exc) == exc \in {"IndexError", "LoaderError"}

\* One iteration whose try block raises: the handler draws the next index, j.
\* An exception the handler does not catch, or one it raises itself, leaves
\* __getitem__.
DFLoadFail(j) ==
  /\ dfpc = "loop"
  /\ DFAttemptRaises
  /\ LET pos == PyIndex(Len(df.samples), dfIndex)
         exc == IF pos = 0 THEN "IndexError" ELSE "LoaderError"
     IN  /\ dfTarget' = IF pos = 0 THEN dfTarget ELSE Some(df.samples[pos][2])
         /\ IF ~Caught(exc) \/ RandInt(0, Len(df.samples) - 1) = {}
            THEN dfpc' = "raised" /\ dfIndex' = dfIndex
            ELSE /\ dfpc' = "loop"
                 /\ j \in RandInt(0, Len(df.samples) - 1)
                 /\ dfIndex' = j
  /\ dfFailed' = Some(dfIndex)
  /\ UNCHANGED <<fs, call, df, dfRet, mt, mtRet, mtReturned>>

\* the caller takes the pair
DFReturn ==
  /\ dfpc = "done"
  /\ dfpc' = "idle"
  /\ UNCHANGED <<fs, call, df, dfIndex, dfTarget, dfFailed, dfRet, mt, mtRet,
                 mtReturned>>

InitDF ==
  /\ fs \in DataTrees({"bad", "d2"})
  /\ call = NoCall
  /\ Idle

NextDF ==
  \/ DFConstruct
  \/ DFGetItem
  \/ DFLoadOk
  \/ \E j \in 0..MaxFiles : DFLoadFail(j)
  \/ DFReturn

SpecDF == InitDF /\ [][NextDF]_vars

\* random.randint draws every index again and again; a ready iteration runs
FairSpecDF ==
  /\ SpecDF
  /\ WF_vars(DFLoadOk)
  /\ \A j \in 0..MaxFiles : WF_vars(DFLoadFail(j))

\* ------------------------------------------------------------ claims on DatasetFolder
Retried == dfpc = "loop" /\ dfFailed # Nothing

\* C2 as claimed: the index tried after a failure differs from the index that
\* failed.
C2_AsClaimed == Retried => dfIndex # dfFailed[1]

\* C2 (amended): when the attempt at the current index raises, the error is
\* caught and the next attempt uses an index drawn from 0..len(samples)-1,
\* which may be the index that just failed.
C2_RetryInRange ==
  /\ dfpc # "raised"
  /\ Retried => dfIndex \in 0..(Len(df.samples) - 1)

C2_Witness == Retried /\ dfIndex = dfFailed[1] /\ Len(df.samples) > 1

Loadable(i) == ~LoaderRaises(fs, df.samples[i][1])

HasLoadable == df.status = "ok" /\ \E i \in 1..Len(df.samples) : Loadable(i)

C10_Safety ==
  /\ dfpc # "raised"
  /\ dfpc = "done" =>
       \E i \in 1..Len(df.samples) :
         /\ Loadable(i)
         /\ dfRet = Some(<<ApplyTransform(df.transform, Loader(fs, df.samples[i][1])),
                           ApplyTransform(df.target_transform, df.samples[i][2])>>)

\* C10: for any integer index the retry loop ends only by returning a pair
\* whose sample and target come from one entry of samples that loaded; no
\* load exception or IndexError leaves __getitem__; with a loadable entry it
\* returns under fair random choice of the replacement index, and with none it
\* never returns.
C10_RetryLoop ==
  /\ []C10_Safety
  /\ [](~HasLoadable => dfpc # "done")
  /\ (dfpc = "loop" /\ HasLoadable) ~> (dfpc = "done")

C10_Witness ==
  /\ dfpc = "done"
  /\ dfFailed # Nothing
  /\ PyIndex(Len(df.samples), dfFailed[1]) = 0
  /\ \E i \in 1..Len(df.samples) : ~Loadable(i)

\* ------------------------------------------------------------ MultiTaskDatasetFolder
\* np.random.seed(0); np.random.permutation(n), positions from 0
Permutation(n) ==
  CASE n = 0 -> << >>
    [] n = 1 -> <<0>>
    [] n = 2 -> <<1, 0>>
    [] n = 3 -> <<2, 1, 0>>
    [] n = 4 -> <<2, 3, 1, 0>>
    [] n = 5 -> <<2, 0, 1, 3, 4>>

MTFailed(e, max_images) ==
  [status |-> e, tasks |-> << >>, args |-> Nothing, samples |-> << >>,
   cache |-> << >>, ids |-> << >>, extensions |-> Nothing, transform |-> None,
   target_transform |-> None, max_images |-> max_images, prefixes |-> Nothing]

\* the first element of s that satisfies none of ok, Nothing when all do
RECURSIVE FirstNotIn(_, _)
FirstNotIn(s, ok) ==
  IF s = << >> THEN Nothing
  ELSE IF Head(s) \notin ok THEN Some(Head(s))
  ELSE FirstNotIn(Tail(s), ok)

\* __init__(root, tasks, loader, args, extensions, transform, target_transform,
\* is_valid_file, prefixes, max_images); ctor holds the arguments from
\* extensions on
MultiTaskDatasetFolderInit(f, root, tasks, args, ctor) ==
  LET extensions       == ctor.extensions
      transform        == ctor.transform
      target_transform == ctor.target_transform
      is_valid_file    == ctor.is_valid_file
      prefixes         == ctor.prefixes
      max_images       == ctor.max_images
      prefix(task) ==
        IF prefixes # Nothing /\ task \in DOMAIN prefixes[1]
        THEN prefixes[1][task] ELSE << >>
      made(task) ==
        make_nonclass_dataset(f, Join(root, prefix(task) \o task), args.fsids,
                              extensions, is_valid_file)
      raising == FirstNotIn(tasks, {t \in Range(tasks) : made(t).exc = None})
      samples == [t \in Range(tasks) |-> made(t).instances]
      total   == Len(samples[tasks[1]])
      permutation == Permutation(total)
      subset(t) ==
        PySliceTo([k \in 1..total |-> samples[t][permutation[k] + 1]],
                  max_images[1])
  IN  IF raising # Nothing THEN MTFailed(made(raising[1]).exc, max_images)
      ELSE IF \E t \in Range(tasks) : ZeroSamples(samples[t])
      THEN MTFailed("RuntimeError", max_images)
      ELSE IF max_images # Nothing /\ \E t \in Range(tasks) : Len(samples[t]) < total
      THEN MTFailed("IndexError", max_images)
      ELSE [status |-> "ok", tasks |-> tasks, args |-> Some(args),
            samples |-> IF max_images # Nothing
                        THEN [t \in Range(tasks) |-> subset(t)]
                        ELSE samples,
            cache |-> << >>, ids |-> << >>, extensions |-> extensions,
            transform |-> transform, target_transform |-> target_transform,
            max_images |-> max_images, prefixes |-> prefixes]

\* len(dataset)
MTLen(obj) == Len(obj.samples[obj.tasks[1]])

NpyExt == <<".", "n", "p", "y">>
NpzExt == <<".", "n", "p", "z">>

TaskLayermaps     == <<"l", "a", "y", "e", "r", "m", "a", "p", "s">>
TaskBscanlayermap == <<"b", "s", "c", "a", "n", "l", "a", "y", "e", "r", "m", "a", "p">>
Semseg            == <<"s", "e", "m", "s", "e", "g">>

Ndim(content) == IF content = "d2" THEN 2 ELSE 3

\* The body of __getitem__'s loop for one task: the sample, or the exception
\* the loading raises.
MTLoadSample(f, task, path, args) ==
  LET content == Content(f, path)
      loaded(conv, shape) ==
        [exc |-> None, sample |-> [src |-> path, conv |-> conv, shape |-> shape]]
      failed(e) == [exc |-> e, sample |-> << >>]
  IN  IF content = "bad" THEN failed("LoaderError")
      ELSE IF EndsWith(path, NpyExt) \/ EndsWith(path, NpzExt)
      THEN LET conv == IF task = TaskLayermaps THEN "layer_maps_int"
                       ELSE IF task = TaskBscanlayermap THEN "int"
                       ELSE "float32_div_255"
           IN  IF task = TaskLayermaps /\ EndsWith(path, NpyExt)
               THEN failed("IndexError")
               ELSE IF task # TaskLayermaps /\ EndsWith(path, NpzExt)
               THEN failed("AttributeError")
               ELSE IF Ndim(content) = 2 /\ args.three_d
               THEN IF task = TaskSlo THEN loaded(conv, "H1W")
                    ELSE IF task = TaskBscan THEN loaded(conv, "1HW")
                    ELSE failed("ValueError")
               ELSE loaded(conv, "as_loaded")
      ELSE IF Contains(task, Semseg) THEN loaded("mapping", "as_loaded")
      ELSE loaded("normalize_to_0_1", "as_loaded")

MTCacheStore_enabled(cache, index, entry) == (index :> entry) @@ cache

\* what __getitem__ leaves in self.cache after loading index: the store is
\* commented out
MTCacheStore(cache, index, entry) == cache

\* The loop over self.tasks, from the tasks still to load and the locals so far.
RECURSIVE MTLoadTasks(_, _, _, _, _)
MTLoadTasks(f, obj, index, tasks, acc) ==
  IF tasks = << >> \/ acc.exc # None THEN acc
  ELSE LET task == Head(tasks)
           pos  == PyIndex(Len(obj.samples[task]), index)
       IN  IF pos = 0 THEN [acc EXCEPT !.exc = "IndexError"]
           ELSE LET path   == obj.samples[task][pos][1]
                    target == obj.samples[task][pos][2]
                    got    == MTLoadSample(f, task, path, obj.args[1])
                IN  IF got.exc # None
                    THEN [acc EXCEPT !.exc = got.exc, !.target = Some(target)]
                    ELSE MTLoadTasks(f, obj, index, Tail(tasks),
                           [acc EXCEPT
                              !.target = Some(target),
                              !.sample_dict = (task :> got.sample) @@ @,
                              !.ids = IF index \in DOMAIN @ THEN @
                                      ELSE (index :> Stem(path)) @@ @])

\* __getitem__(index): the object afterwards and the outcome
MultiTaskGetItem(f, obj, index) ==
  LET cached == index \in DOMAIN obj.cache
      acc == IF cached
             THEN [exc |-> None, sample_dict |-> obj.cache[index][1],
                   target |-> obj.cache[index][2], ids |-> obj.ids]
             ELSE MTLoadTasks(f, obj, index, obj.tasks,
                              [exc |-> None, sample_dict |-> << >>,
                               target |-> Nothing, ids |-> obj.ids])
      exc == IF acc.exc # None THEN acc.exc
             ELSE IF index \notin DOMAIN acc.ids THEN "KeyError"
             ELSE None
      cache == IF cached \/ acc.exc # None THEN obj.cache
               ELSE MTCacheStore(obj.cache, index, <<acc.sample_dict, acc.target>>)
  IN  [obj |-> [obj EXCEPT !.ids = acc.ids, !.cache = cache],
       ret |-> IF exc # None
               THEN [status |-> "raise", index |-> index, exc |-> exc,
                     again |-> FALSE, sample_dict |-> << >>, target |-> Nothing, id |-> << >>,
                     source |-> "none"]
               ELSE [status |-> "return", index |-> index, exc |-> None,
                     again |-> FALSE, sample_dict |-> ApplyTransform(obj.transform, acc.sample_dict),
                     target |-> IF obj.target_transform = None \/ acc.target = Nothing
                                THEN acc.target
                                ELSE Some(ApplyTransform(obj.target_transform,
                                                         acc.target[1])),
                     id |-> acc.ids[index],
                     source |-> IF cached THEN "cache" ELSE "files"]]

TaskLists     == {<<TaskBscan, TaskSlo>>, <<TaskSlo>>}
MTFsidsArgs   == {Nothing, Some({<<"x">>})}
PrefixArgs    == {Nothing, Some([t \in {TaskSlo} |-> <<"b">>])}
MaxImagesArgs == {Nothing, Some(-1), Some(0), Some(1)}

MTConstruct ==
  /\ df = NoObject /\ mt = NoObject
  /\ \E tasks \in TaskLists, fsids \in MTFsidsArgs, three_d \in BOOLEAN,
        extensions \in CtorExtensionArgs, prefixes \in PrefixArgs,
        max_images \in MaxImagesArgs :
       mt' = MultiTaskDatasetFolderInit(fs, Root, tasks,
               [fsids |-> fsids, three_d |-> three_d],
               [extensions |-> extensions, transform |-> None,
                target_transform |-> None, is_valid_file |-> None,
                prefixes |-> prefixes, max_images |-> max_images])
  /\ UNCHANGED <<fs, call, df, dfpc, dfIndex, dfTarget, dfFailed, dfRet, mtRet,
                 mtReturned>>

MTGetItem ==
  /\ mt # NoObject /\ mt.status = "ok"
  /\ \E index \in (-1)..MaxIndex :
       LET r == MultiTaskGetItem(fs, mt, index)
       IN  /\ mt' = r.obj
           /\ mtRet' = [r.ret EXCEPT !.again = index \in mtReturned]
           /\ mtReturned' = IF r.ret.status = "return"
                            THEN mtReturned \cup {index} ELSE mtReturned
  /\ UNCHANGED <<fs, call, df, dfpc, dfIndex, dfTarget, dfFailed, dfRet>>

InitMT ==
  /\ fs \in DataTrees({"bad", "d2", "d3"})
  /\ call = NoCall
  /\ Idle

NextMT == MTConstruct \/ MTGetItem

SpecMT == InitMT /\ [][NextMT]_vars

\* the object is dropped; the next one can be constructed
Dispose ==
  /\ df # NoObject \/ mt # NoObject
  /\ df' = NoObject /\ mt' = NoObject
  /\ UNCHANGED <<fs, call, dfpc, dfIndex, dfTarget, dfFailed, dfRet, mtRet,
                 mtReturned>>

NextConstruct == DFConstruct \/ MTConstruct \/ Dispose

SpecConstruct == InitMT /\ [][NextConstruct]_vars

\* ------------------------------------------------------------ claims on MultiTaskDatasetFolder
MTCalled == mt.status = "ok" /\ mtRet.status # "none"

InRange == 0 <= mtRet.index /\ mtRet.index < MTLen(mt)

\* C1 as claimed: for every index in range __getitem__ returns one entry per
\* task, each from position index of the task's list, and the files at that
\* position of every task's list have the stem returned as the id.
C1_AsClaimed ==
  (MTCalled /\ InRange) =>
    /\ mtRet.exc # "IndexError"
    /\ mtRet.status = "return" =>
         /\ DOMAIN mtRet.sample_dict = Range(mt.tasks)
         /\ \A t \in Range(mt.tasks) :
              /\ mtRet.sample_dict[t].src = mt.samples[t][mtRet.index + 1][1]
              /\ Stem(mt.samples[t][mtRet.index + 1][1]) = mtRet.id

LoadErrors == {"LoaderError", "AttributeError", "ValueError"}

\* C3 as claimed: no error raised while loading a task's file leaves
\* MultiTaskDatasetFolder.__getitem__.
C3_AsClaimed == MTCalled => ~(mtRet.status = "raise" /\ mtRet.exc \in LoadErrors)

\* C4 as claimed: every index returned is a key of cache, and a second
\* __getitem__ on it is served from the cache.
C4_AsClaimed ==
  MTCalled =>
    /\ mtReturned \subseteq DOMAIN mt.cache
    /\ (mtRet.status = "return" /\ mtRet.again) => mtRet.source = "cache"

\* C4 (amended): the cache of MultiTaskDatasetFolder is never populated, so it
\* stays empty and every __getitem__, also one on an index returned before,
\* loads the files again; the table keyed by sample index that is filled
\* lazily and never evicted is ids: every index returned at least once is a
\* key of ids.
C4_NoCaching ==
  mt.status = "ok" =>
    /\ DOMAIN mt.cache = {}
    /\ mtReturned \subseteq DOMAIN mt.ids
    /\ mtRet.status = "return" => mtRet.source = "files"

C4_Witness ==
  /\ MTCalled
  /\ mtRet.status = "return"
  /\ mtRet.again
  /\ Cardinality(mtReturned) >= 2

NonEmptyLists(obj) == \A t \in Range(obj.tasks) : Len(obj.samples[t]) >= 1

\* C5 as claimed: every constructed dataset has non-empty sample lists,
\* whatever max_images is.
C5_AsClaimed ==
  /\ df.status = "ok" => Len(df.samples) >= 1
  /\ mt.status = "ok" => NonEmptyLists(mt) /\ MTLen(mt) >= 1

\* C5 (amended): DatasetFolder raises RuntimeError when no file under any class
\* folder is valid and MultiTaskDatasetFolder when a task has no valid file, so
\* a constructed DatasetFolder has a non-empty sample list, and a constructed
\* MultiTaskDatasetFolder has one for every task provided max_images is None
\* or at least 1 (max_images = 0 leaves every list empty without raising).
C5_NonEmpty ==
  /\ df.status = "ok" => Len(df.samples) >= 1
  /\ (df # NoObject /\ DOMAIN fs.files = {}) => df.status \in {"RuntimeError", "ValueError"}
  /\ (mt.status = "ok" /\ (mt.max_images = Nothing \/ mt.max_images[1] >= 1)) =>
       NonEmptyLists(mt) /\ MTLen(mt) >= 1
  /\ (mt # NoObject /\ FileNames(fs, Join(Root, TaskSlo)) = {}) => mt.status # "ok"

C5_Witness ==
  /\ mt.status = "ok"
  /\ mt.max_images = Some(1)
  /\ Len(mt.tasks) = 2
  /\ \E t \in Range(mt.tasks) : Cardinality(FileNames(fs, Join(Root, t))) = 2

\* ------------------------------------------------------------ the max_images subset
\* the list make_nonclass_dataset built for task t of a constructed object,
\* before the subset is taken
FullList(obj, t) ==
  LET prefix == IF obj.prefixes # Nothing /\ t \in DOMAIN obj.prefixes[1]
                THEN obj.prefixes[1][t] ELSE << >>
  IN  make_nonclass_dataset(fs, Join(Root, prefix \o t), obj.args[1].fsids,
                            obj.extensions, None).instances

\* the one-to-one maps of the positions 1..n into the original positions 0..n-1
PositionMaps(n) ==
  {p \in [1..n -> 0..(n - 1)] : \A i, j \in 1..n : p[i] = p[j] => i = j}

\* every task's list holds, at each position, the entry at the same original
\* position of its full list
SamePermutation(obj) ==
  \E p \in PositionMaps(Len(FullList(obj, obj.tasks[1]))) :
    \A t \in Range(obj.tasks) :
      \A i \in 1..Len(obj.samples[t]) : obj.samples[t][i] = FullList(obj, t)[p[i] + 1]

SubsetTaken == mt.status = "ok" /\ mt.max_images # Nothing

Min(a, b) == IF a < b THEN a ELSE b

\* C11 as claimed: with an integer max_images every task's list has length
\* min(max_images, n), n the number of samples of the first task, one
\* permutation places every task's entries, and construction succeeds
\* whatever the per-task sample counts are.
C11_AsClaimed ==
  /\ mt.status # "IndexError"
  /\ (SubsetTaken /\ mt.max_images[1] >= 0) =>
       /\ \A t \in Range(mt.tasks) :
            Len(mt.samples[t]) = Min(mt.max_images[1], Len(FullList(mt, mt.tasks[1])))
       /\ SamePermutation(mt)

\* C11 (amended): with an integer max_images, construction succeeds only when
\* no task has fewer samples than the first task (it raises IndexError
\* otherwise); then one permutation of the first task's n positions is
\* applied identically to every task, position i of every task's list holds
\* the entry at the same original position p(i) of that task's full list,
\* and every list has length min(max_images, n) when max_images >= 0 and
\* max(0, n + max_images) when it is negative.
C11_Subset ==
  /\ SubsetTaken =>
       LET n == Len(FullList(mt, mt.tasks[1]))
           m == mt.max_images[1]
       IN  /\ \A t \in Range(mt.tasks) :
                /\ Len(FullList(mt, t)) >= n
                /\ Len(mt.samples[t]) =
                     IF m >= 0 THEN Min(m, n) ELSE (IF n + m > 0 THEN n + m ELSE 0)
           /\ SamePermutation(mt)
  /\ mt.status = "IndexError" =>
       /\ mt.max_images # Nothing
       /\ Cardinality(FileNames(fs, Join(Root, TaskBscan)))
            > Cardinality(FileNames(fs, Join(Root, TaskSlo)))

C11_Witness ==
  /\ SubsetTaken
  /\ mt.max_images = Some(1)
  /\ Len(mt.tasks) = 2
  /\ Len(FullList(mt, mt.tasks[1])) = 2
  /\ \A t \in Range(mt.tasks) :
       Len(FullList(mt, t)) = 2 /\ mt.samples[t] = <<FullList(mt, t)[2]>>

====
